---- MODULE Spec2Model ----
(***************************************************************************)
(* State-machine model of the THEMA market outlook API client              *)
(* (src/API_script.py): the classes Thema_API, Thema_data_API,             *)
(* Thema_technology_data_API and Thema_hydrogen_data_API.                  *)
(*                                                                         *)
(* A remote call is a step of the model whose response (status, payload,   *)
(* latency) is chosen by the environment.  A get_*_data call is split at   *)
(* its remote data requests: the Begin step runs the method up to and      *)
(* including expansion and pruning, every following Request step is one    *)
(* call of the private __get_*_data on the next instance, and the step on  *)
(* the last instance also runs the merge and the return.                   *)
(***************************************************************************)
EXTENDS Integers, Sequences, FiniteSets, TLC

VARIABLES
    client,                 \* class of the client object
    hashseed,               \* iteration order of Python sets in this process
    now,                    \* time.time()
    token_timestamp,        \* self.token_timestamp
    authorization_header,   \* self.authorization_header: 0 unset, n the n-th token
    master_data,            \* self.master_data: key -> relation (sequence of rows)
    md_fetch,               \* for every key of master_data, the fetch that wrote it
    combination_query,      \* self.combination_query
    rejected_combinations,  \* self.rejected_combinations
    pc,                     \* "idle", "requesting", "done"
    cur,                    \* the running call: endpoint, mode, template
    json,                   \* the template after defaulting
    product,                \* result of _create_query_combinations
    jsons,                  \* instances left after pruning
    idx,                    \* number of instances already requested
    frames,                 \* what __get_*_data returned for each requested instance
    calls,                  \* the remote calls of the running call, in order
    printed,                \* messages printed by the running call
    outcome,                \* how the last call ended
    ret,                    \* what the last call returned
    ncalls,                 \* number of public calls made on the client
    crashed,                \* some public call so far ended in an exception
    threads                 \* threads sharing the client: position in _get_authorization_token

vars == <<client, hashseed, now, token_timestamp, authorization_header, master_data,
          md_fetch, combination_query, rejected_combinations, pc, cur, json, product,
          jsons, idx, frames, calls, printed, outcome, ret, ncalls, crashed, threads>>

----------------------------------------------------------------------------
(* Program constants and bounds *)

token_validity_time == 600
SafetyMargin == 20

StartTime == 1000
LongDelay == 300
MaxCalls == 2
MaxNow == 1600
MaxThreads == 2
MaxChecks == 2
MaxEditions == 3

NONE == "<None>"

----------------------------------------------------------------------------
(* Sequences *)

SeqToSet(s) == {s[i] : i \in DOMAIN s}

\* a concatenation that puts the later frames first
RECURSIVE ConcatAllBackwards(_)
ConcatAllBackwards(seqs) ==
    IF seqs = <<>> THEN <<>> ELSE ConcatAllBackwards(Tail(seqs)) \o Head(seqs)

RECURSIVE ConcatAll(_)
ConcatAll(ss) == IF ss = <<>> THEN <<>> ELSE Head(ss) \o ConcatAll(Tail(ss))

Reverse(s) == [i \in 1..Len(s) |-> s[Len(s) + 1 - i]]

\* a is a sub-sequence of b, for b without repetitions: the elements of a are
\* elements of b, at strictly increasing positions
IsSubSeq(a, b) ==
    LET pos(x) == CHOOSE i \in DOMAIN b : b[i] = x
    IN  /\ \A k \in DOMAIN a : \E i \in DOMAIN b : b[i] = a[k]
        /\ \A k \in 1..(Len(a) - 1) : pos(a[k]) < pos(a[k + 1])

----------------------------------------------------------------------------
(* The remote service: master-data payloads *)

Clients == {"market", "technology", "hydrogen"}

\* GET masterdata of the market API: scenario list, nested groups, nested regions.
MarketBodyA ==
    [scenario |-> <<"Base", "Low">>,
     groups   |-> << [group |-> "Prices",
                      indicators |-> << [indicator |-> "Base price", unit |-> "EUR"] >>],
                     [group |-> "Supply",
                      indicators |-> << [indicator |-> "Bio", unit |-> "MW"] >>] >>,
     regions  |-> << [region |-> "Nordics",
                      edition |-> <<"March 2022", "garbage", "September 2022">>,
                      countries |-> << [country |-> "Norway", zone |-> <<"NO2">>],
                                       [country |-> "Sweden", zone |-> <<"SE2">>] >>],
                     [region |-> "Iberia",
                      edition |-> <<"June 2021">>,
                      countries |-> << [country |-> "Spain", zone |-> <<"ES">>] >>] >>]

\* the same service at a later time: a scenario and a region are gone
MarketBodyB ==
    [scenario |-> <<"Base">>,
     groups   |-> MarketBodyA.groups,
     regions  |-> << MarketBodyA.regions[1] >>]

\* a 200 response without its 'groups' part
MarketBodyNoGroups == [scenario |-> <<"Base">>, regions |-> MarketBodyA.regions]

\* technology/masterdata: flat keyed lists; a list of strings or a list of objects
TechBodyA ==
    [scenarios    |-> [shape |-> "list", items |-> <<"Base", "Low">>],
     countries    |-> [shape |-> "list", items |-> <<"Norway", "Sweden">>],
     indicators   |-> [shape |-> "records",
                       items |-> << [indicator |-> "Capex", unit |-> "EUR"] >>],
     technologies |-> [shape |-> "records",
                       items |-> << [technology |-> "Wind",
                                     categories |-> <<"Onshore", "Offshore">>],
                                    [technology |-> "Solar",
                                     categories |-> <<"Rooftop">>] >>],
     editions     |-> [shape |-> "list", items |-> <<"March 2022", "September 2022">>]]

\* the same service at a later time: the key 'indicators' is no longer reported
TechBodyB ==
    [scenarios    |-> [shape |-> "list", items |-> <<"Base">>],
     countries    |-> TechBodyA.countries,
     technologies |-> TechBodyA.technologies,
     editions     |-> TechBodyA.editions]

\* hydrogen/masterdata: as technology, with 'groups' a dict group -> indicators
HydrogenBodyA ==
    [scenarios |-> [shape |-> "list", items |-> <<"Base", "Low">>],
     countries |-> [shape |-> "list", items |-> <<"Norway", "Sweden">>],
     groups    |-> [shape |-> "groups", items |-> MarketBodyA.groups],
     editions  |-> [shape |-> "list", items |-> <<"March 2022", "September 2022">>]]

HydrogenBodyB ==
    [scenarios |-> [shape |-> "list", items |-> <<"Base">>],
     groups    |-> HydrogenBodyA.groups,
     editions  |-> HydrogenBodyA.editions]

\* a response with another status carries a JSON error body ("error") or a text
\* that response.json() cannot parse ("bad")
MasterResponses(c) ==
    LET Bodies == CASE c = "market"     -> {MarketBodyA, MarketBodyB, MarketBodyNoGroups}
                    [] c = "technology" -> {TechBodyA, TechBodyB}
                    [] c = "hydrogen"   -> {HydrogenBodyA, HydrogenBodyB}
    IN  {[status |-> 200, payload |-> "catalog", body |-> b] : b \in Bodies}
        \cup {[status |-> 500, payload |-> x, body |-> <<>>] : x \in {"error", "bad"}}

LoginStatuses == {200, 401, 500}

----------------------------------------------------------------------------
(* Thema_data_API.__unpack_masterdata_groups_response and                  *)
(* __unpack_masterdata_regions_response: nested payloads to flat relations *)

unpack_masterdata_groups_response(response) ==
    ConcatAll([g \in DOMAIN response |->
        [i \in DOMAIN response[g].indicators |->
            [group     |-> response[g].group,
             indicator |-> response[g].indicators[i].indicator,
             unit      |-> response[g].indicators[i].unit]]])

RegionEditions(response) ==
    ConcatAll([r \in DOMAIN response |->
        [e \in DOMAIN response[r].edition |->
            [region |-> response[r].region, edition |-> response[r].edition[e]]]])

RegionCountries(response) ==
    ConcatAll([r \in DOMAIN response |->
        ConcatAll([c \in DOMAIN response[r].countries |->
            [z \in DOMAIN response[r].countries[c].zone |->
                [region  |-> response[r].region,
                 country |-> response[r].countries[c].country,
                 zone    |-> response[r].countries[c].zone[z]]]])])

unpack_masterdata_regions_response(response) ==
    [editions |-> RegionEditions(response), countries |-> RegionCountries(response)]

\* pd.DataFrame(value), a single column being renamed to the key
FlatRelation(key, value) ==
    CASE value.shape = "list"    -> [i \in DOMAIN value.items |-> (key :> value.items[i])]
      [] value.shape = "records" -> value.items
      [] value.shape = "groups"  -> unpack_masterdata_groups_response(value.items)

----------------------------------------------------------------------------
(* The client object threaded through the statements of one public call.   *)
(* err is the exception that is propagating: "" while execution goes on.   *)

Client0 ==
    [now |-> now, ts |-> token_timestamp, hdr |-> authorization_header,
     md |-> master_data, src |-> md_fetch, cq |-> combination_query,
     rej |-> rejected_combinations, calls |-> <<>>, printed |-> <<>>, err |-> ""]

Raise(s, exception) == [s EXCEPT !.err = exception]

\* print(...) followed by raise SystemExit
Fatal(s, message) ==
    [s EXCEPT !.err = "SystemExit",
              !.printed = Append(@, [msg |-> message, fields |-> <<>>])]

\* one remote call: logged with the token's remaining validity when it is sent
\* and with the status and payload of the response; d is its latency
RemoteCall(s, type, body, status, payload, d) ==
    [s EXCEPT !.calls = Append(@, [type      |-> type,
                                    at        |-> s.now,
                                    remaining |-> s.ts + token_validity_time - s.now,
                                    body      |-> body,
                                    status    |-> status,
                                    payload   |-> payload]),
              !.now = @ + d]

\* an error handler that reports and returns
handle_unexpected_errors_returns(s, response) ==
    [s EXCEPT !.printed =
         Append(@, [msg    |-> "unexpected_error",
                    fields |-> <<ToString(response.status),
                                 IF response.payload = "bad" THEN "text" ELSE "json">>])]

\* Thema_API._handle_unexpected_errors: prints the status code and response.json(),
\* or response.text when the body does not parse, and raises SystemExit
handle_unexpected_errors(s, response) ==
    [s EXCEPT !.err = "SystemExit",
              !.printed =
         Append(@, [msg    |-> "unexpected_error",
                    fields |-> <<ToString(response.status),
                                 IF response.payload = "bad" THEN "text" ELSE "json">>])]

\* a credential check that logs in only once the token's 600 seconds have passed
get_authorization_token_no_margin(s, lr) ==
    IF s.err # "" THEN s
    ELSE IF s.ts + token_validity_time < s.now
    THEN LET s1 == RemoteCall(s, "login", <<>>, lr.status, "", lr.d)
         IN  CASE lr.status = 200 -> [s1 EXCEPT !.hdr = @ + 1, !.ts = s1.now]
               [] lr.status = 401 -> Fatal(s1, "unauthorized")
               [] OTHER           -> Raise(s1, "AttributeError")
    ELSE s

\* a credential check that carries on after a rejected login
get_authorization_token_ignores_401(s, lr) ==
    IF s.err # "" THEN s
    ELSE IF s.ts + token_validity_time < s.now + SafetyMargin
    THEN LET s1 == RemoteCall(s, "login", <<>>, lr.status, "", lr.d)
         IN  CASE lr.status = 200 -> [s1 EXCEPT !.hdr = @ + 1, !.ts = s1.now]
               [] lr.status = 401 -> s1
               [] OTHER           -> Raise(s1, "AttributeError")
    ELSE s

\* Thema_API._get_authorization_token; lr is the login response
get_authorization_token(s, lr) ==
    IF s.err # "" THEN s
    ELSE IF s.ts + token_validity_time < s.now + SafetyMargin
    THEN LET s1 == RemoteCall(s, "login", <<>>, lr.status, "", lr.d)
         IN  CASE lr.status = 200 -> [s1 EXCEPT !.hdr = @ + 1, !.ts = s1.now]
               [] lr.status = 401 -> Fatal(s1, "unauthorized")
               \* self.__handle_unexpected_errors is mangled to a name no class defines
               [] OTHER           -> Raise(s1, "AttributeError")
    ELSE s

Put(md, key, value) == (key :> value) @@ md

NextFetch(s) ==
    IF DOMAIN s.src = {} THEN 1
    ELSE 1 + (CHOOSE n \in {s.src[k] : k \in DOMAIN s.src} :
                 \A k \in DOMAIN s.src : s.src[k] <= n)

Store(s, key, value, fetch) ==
    [s EXCEPT !.md = Put(@, key, value), !.src = Put(@, key, fetch)]

\* Thema_data_API.get_master_data, the statements after a 200 response
MarketStore(s, body) ==
    LET f  == NextFetch(s)
        s1 == Store(s, "scenario",
                    [i \in DOMAIN body.scenario |-> [scenario |-> body.scenario[i]]], f)
        s2 == Store(s1, "groups", unpack_masterdata_groups_response(body.groups), f)
        u  == unpack_masterdata_regions_response(body.regions)
        s3 == Store(Store(s2, "editions", u.editions, f), "countries", u.countries, f)
    IN  IF "scenario" \notin DOMAIN body THEN Raise(s, "KeyError")
        ELSE IF "groups" \notin DOMAIN body THEN Raise(s1, "KeyError")
        ELSE IF "regions" \notin DOMAIN body THEN Raise(s2, "KeyError")
        ELSE s3

\* Thema_technology_data_API / Thema_hydrogen_data_API.get_master_data, the loop
\* over response.items(): every key of the response is assigned, no key is removed
FlatStore(s, body) ==
    LET f == NextFetch(s)
    IN  [s EXCEPT
           !.md  = [k \in DOMAIN body |-> FlatRelation(k, body[k])] @@ @,
           !.src = [k \in DOMAIN body |-> f] @@ @]

\* get_master_data of the three classes; mr is the master-data response
get_master_data(s, lr, mr) ==
    LET s1 == get_authorization_token(s, lr)
        s2 == RemoteCall(s1, "masterdata", <<>>, mr.status, mr.payload, mr.d)
    IN  IF s.err # "" THEN s
        ELSE IF s1.err # "" THEN s1
        ELSE IF mr.status # 200 THEN handle_unexpected_errors(s2, mr)
        ELSE IF client = "market" THEN MarketStore(s2, mr.body)
        ELSE FlatStore(s2, mr.body)

\* the responses the environment may give to the login and master-data requests of
\* a call; a request that is not sent has one (unused) response
Expired == token_timestamp + token_validity_time < now + SafetyMargin
LoginResponses ==
    IF Expired THEN [status : LoginStatuses, d : {0}] ELSE {[status |-> 200, d |-> 0]}
MasterDataResponses(fetches) ==
    IF fetches
    THEN {[status |-> r.status, payload |-> r.payload, body |-> r.body, d |-> 0] :
             r \in MasterResponses(client)}
    ELSE {[status |-> 500, payload |-> "bad", body |-> <<>>, d |-> 0]}

----------------------------------------------------------------------------
(* Query templates (the json argument) and query instances                 *)
(*                                                                         *)
(* A template is a Python dict: the sequence of its items in insertion     *)
(* order.  t is the type of the value: "scalar" (a str, v its singleton),  *)
(* "set" (v the set) or "none" (None).  An instance is the sequence of     *)
(* its items [k, v], v a str or NONE.                                      *)

Scalar(k, x) == [k |-> k, t |-> "scalar", v |-> {x}]
SetOf(k, S)  == [k |-> k, t |-> "set", v |-> S]
None(k)      == [k |-> k, t |-> "none", v |-> {NONE}]

HasKey(j, k)  == \E i \in DOMAIN j : j[i].k = k
Idx(j, k)     == CHOOSE i \in DOMAIN j : j[i].k = k
Entry(j, k)   == j[Idx(j, k)]
Value(i, k)   == i[Idx(i, k)].v

\* not x, for a template value
Falsy(e) == e.t = "none" \/ (e.t = "set" /\ e.v = {}) \/ (e.t = "scalar" /\ e.v = {""})

\* 'k' not in json.keys() or not json['k']
Missing(j, k) == ~HasKey(j, k) \/ Falsy(Entry(j, k))

\* json[k] = e: an existing key keeps its position, a new key goes last
SetItem(j, e) == IF HasKey(j, e.k) THEN [j EXCEPT ![Idx(j, e.k)] = e] ELSE Append(j, e)

\* the dict passed on when no value is a set: the same items, as an instance
AsInstance(j) == [i \in DOMAIN j |-> [k |-> j[i].k, v |-> CHOOSE x \in j[i].v : TRUE]]

----------------------------------------------------------------------------
(* Relations of the catalog *)

HasColumn(md, key, col) ==
    /\ key \in DOMAIN md
    /\ md[key] # <<>>
    /\ col \in DOMAIN md[key][1]

Column(md, key, col) == [i \in DOMAIN md[key] |-> md[key][i][col]]

----------------------------------------------------------------------------
(* Thema_API._transfrom_to_date: '%B %Y', any failure mapped to January 1970 *)

\* datetime.strptime(date, '%B %Y'): months since year 0, or a ValueError
strptime(date) ==
    CASE date = "March 2022"     -> [ok |-> TRUE, months |-> 2022 * 12 + 3]
      [] date = "September 2022" -> [ok |-> TRUE, months |-> 2022 * 12 + 9]
      [] date = "June 2021"      -> [ok |-> TRUE, months |-> 2021 * 12 + 6]
      [] date = "January 1970"   -> [ok |-> TRUE, months |-> 1970 * 12 + 1]
      [] date = "June 1969"      -> [ok |-> TRUE, months |-> 1969 * 12 + 6]
      [] OTHER                   -> [ok |-> FALSE, months |-> 0]

transfrom_to_date(date) ==
    IF strptime(date).ok THEN strptime(date).months ELSE strptime("January 1970").months

\* a lookup that takes the first row without sorting
NewestOfUnsorted(editions) == editions[1]

\* sort_values(by="Date", ascending=False) followed by .iloc[0]: a row of the
\* latest date, the first of them in the relation
NewestOf(editions) ==
    LET best == CHOOSE i \in DOMAIN editions :
                   /\ \A j \in DOMAIN editions :
                          transfrom_to_date(editions[j]) <= transfrom_to_date(editions[i])
                   /\ \A j \in DOMAIN editions :
                          transfrom_to_date(editions[j]) = transfrom_to_date(editions[i])
                              => i <= j
    IN  editions[best]

\* Thema_data_API.__get_newest_edition(region); region is a template entry, or
\* None(..) when the argument is left out.  Result: [err, printed_, edition]
get_newest_edition(md, region) ==
    IF ~HasColumn(md, "editions", "edition") \/ ~HasColumn(md, "editions", "region")
    THEN [err |-> "KeyError", msg |-> "", edition |-> ""]
    ELSE IF region.t # "none"
    THEN IF region.t = "scalar" /\ region.v \subseteq SeqToSet(Column(md, "editions", "region"))
         THEN LET x    == CHOOSE r \in region.v : TRUE
                  rows == SelectSeq(md["editions"], LAMBDA row : row.region = x)
              IN  [err |-> "", msg |-> "",
                   edition |-> NewestOf([i \in DOMAIN rows |-> rows[i].edition])]
         ELSE [err |-> "SystemExit", msg |-> "unknown_region", edition |-> ""]
    ELSE [err |-> "", msg |-> "", edition |-> NewestOf(Column(md, "editions", "edition"))]

\* Thema_technology_data_API / Thema_hydrogen_data_API.__get_newest_edition
get_newest_edition_flat(md) ==
    IF ~HasColumn(md, "editions", "editions")
    THEN [err |-> "KeyError", msg |-> "", edition |-> ""]
    ELSE [err |-> "", msg |-> "", edition |-> NewestOf(Column(md, "editions", "editions"))]

----------------------------------------------------------------------------
(* The public get_*_data methods, as tables read off their bodies *)

D(field, key, col) == [field |-> field, key |-> key, col |-> col]

Endpoints == {"hourly", "monthly", "annual", "GO", "PPA", "technology", "hydrogen"}

EndpointsOf(c) ==
    CASE c = "market"     -> {"hourly", "monthly", "annual", "GO", "PPA"}
      [] c = "technology" -> {"technology"}
      [] c = "hydrogen"   -> {"hydrogen"}

\* the "if <field> not in json.keys() or not json[<field>]" statements after the
\* edition, in order, with the master_data key and column each one reads
Defaults(ep) ==
    CASE ep = "hourly" ->
            << D("scenario", "scenario", "scenario"), D("zone", "countries", "zone"),
               D("country", "countries", "country"), D("region", "countries", "region") >>
      [] ep = "monthly" ->
            << D("scenario", "scenario", "scenario"), D("zone", "countries", "zone"),
               D("country", "countries", "country"), D("region", "countries", "region"),
               D("indicator", "groups", "indicator"), D("group", "groups", "group") >>
      [] ep = "annual" ->
            << D("scenario", "scenario", "scenario"), D("zone", "countries", "zone"),
               D("country", "countries", "country"), D("region", "countries", "region"),
               D("indicator", "groups", "indicator"), D("group", "groups", "groups") >>
      [] ep = "GO" ->
            << D("scenario", "scenarios", "scenarios"), D("zone", "countries", "zone"),
               D("group", "groups", "groups"), D("indicator", "groups", "indicator") >>
      [] ep = "PPA" ->
            << D("scenario", "scenario", "scenario"), D("zone", "countries", "zone"),
               D("group", "groups", "group") >>
      [] ep = "technology" ->
            << D("scenario", "scenarios", "scenarios"), D("country", "countries", "countries"),
               D("indicator", "indicators", "indicator"),
               D("technology", "technologies", "technology"),
               D("category", "technologies", "categories") >>
      [] ep = "hydrogen" ->
            << D("scenario", "scenarios", "scenarios"), D("country", "countries", "countries"),
               D("group", "groups", "group"), D("indicator", "groups", "indicator") >>

\* an edition lookup that never passes the region
EditionNeverByRegion(ep) == FALSE

\* the edition is looked up for json["region"] (hourly, monthly, annual) or over
\* all regions
EditionByRegion(ep) == ep \in {"hourly", "monthly", "annual"}

\* required_fields of the private __get_*_data; technology and hydrogen validate nothing
RequiredFields(ep) ==
    CASE ep = "hourly"              -> <<"scenario", "region", "country", "zone">>
      [] ep \in {"monthly", "annual"} -> <<"scenario", "region", "group">>
      [] ep \in {"GO", "PPA"}       -> <<"scenario", "group">>
      [] OTHER                      -> <<>>

\* a ledger that files every endpoint under its first key
LedgerKindFirst(ep) == "Hourly"

\* the key of self.rejected_combinations the private __get_*_data appends to
LedgerKind(ep) ==
    CASE ep = "hourly"  -> "Hourly"
      [] ep = "monthly" -> "Monthly"
      [] ep = "annual"  -> "Annual"
      [] ep = "GO"      -> "GO"
      [] ep = "PPA"     -> "PPA"
      [] ep = "technology" -> "Annual"
      [] ep = "hydrogen"   -> "Annual"

Kinds == {"Hourly", "Annual", "Monthly", "GO", "PPA"}

----------------------------------------------------------------------------
(* Defaulting: the statements of get_*_data between the catalog load and   *)
(* the test for set-valued parameters.  A state is [json, err, msg].       *)

\* set(self.master_data[key][col]); the categories column holds lists, which
\* get_annual_data flattens first
Domain(md, d) ==
    IF d.col = "categories"
    THEN UNION {SeqToSet(x) : x \in SeqToSet(Column(md, d.key, d.col))}
    ELSE SeqToSet(Column(md, d.key, d.col))

DefaultEdition(ep, md, j) ==
    IF ~Missing(j, "edition") THEN [json |-> j, err |-> "", msg |-> ""]
    ELSE IF EditionByRegion(ep) /\ ~HasKey(j, "region")
    THEN [json |-> j, err |-> "KeyError", msg |-> ""]
    ELSE LET e == IF ep \in {"technology", "hydrogen"} THEN get_newest_edition_flat(md)
                  ELSE IF EditionByRegion(ep) THEN get_newest_edition(md, Entry(j, "region"))
                  ELSE get_newest_edition(md, None("region"))
         IN  IF e.err # "" THEN [json |-> j, err |-> e.err, msg |-> e.msg]
             ELSE [json |-> SetItem(j, Scalar("edition", e.edition)), err |-> "", msg |-> ""]

DefaultField(md, st, d) ==
    IF st.err # "" \/ ~Missing(st.json, d.field) THEN st
    ELSE IF ~HasColumn(md, d.key, d.col) THEN [st EXCEPT !.err = "KeyError"]
    ELSE [st EXCEPT !.json = SetItem(@, SetOf(d.field, Domain(md, d)))]

RECURSIVE DefaultFields(_, _, _)
DefaultFields(md, st, ds) ==
    IF ds = <<>> THEN st
    ELSE DefaultFields(md, DefaultField(md, st, Head(ds)), Tail(ds))

Defaulting(ep, md, j) == DefaultFields(md, DefaultEdition(ep, md, j), Defaults(ep))

\* a test that takes every template for a combination query
AnySetOrScalar(j) == \E i \in DOMAIN j : j[i].t \in {"set", "scalar"}

\* any(list(map(lambda x: type(x) == set, json.values())))
AnySet(j) == \E i \in DOMAIN j : j[i].t = "set"

----------------------------------------------------------------------------
(* Thema_API._create_query_combinations *)

\* all strings of the model, in the order a set iterates over them when hashseed = 0
ValueOrder ==
    << NONE, "", "Base", "Low", "Nordics", "Iberia", "Atlantis", "Norway", "Sweden", "Spain",
       "NO2", "SE2", "ES", "Prices", "Supply", "Base price", "Bio", "Capex", "Wind", "Solar",
       "Hydro", "Onshore", "Offshore", "Rooftop", "March 2022", "garbage",
       "September 2022", "June 2021" >>

\* list(S) for a Python set S
Iterate(S, seed) ==
    LET up == SelectSeq(ValueOrder, LAMBDA x : x \in S)
    IN  IF seed = 0 THEN up ELSE Reverse(up)

\* itertools.product(*values_list) zipped with the keys: the last key varies fastest
RECURSIVE Combinations(_, _)
Combinations(j, seed) ==
    IF j = <<>> THEN << <<>> >>
    ELSE LET first == Iterate(Head(j).v, seed)
             rest  == Combinations(Tail(j), seed)
         IN  ConcatAll([a \in DOMAIN first |->
                 [b \in DOMAIN rest |-> <<[k |-> Head(j).k, v |-> first[a]]>> \o rest[b]]])

\* an expansion that pairs the values up instead of crossing them
FirstCombinationOnly(j, seed) == SubSeq(Combinations(j, seed), 1, 1)

create_query_combinations(j, seed) == Combinations(j, seed)

----------------------------------------------------------------------------
(* Pruning.  Result: [err, jsons]; err = "KeyError" when a subscript fails *)

\* list(countries.loc[(countries.region == r) & (countries.country == c), "zone"])
ZonesOf(md, r, c) ==
    LET rows == SelectSeq(md["countries"], LAMBDA row : row.region = r /\ row.country = c)
    IN  [i \in DOMAIN rows |-> rows[i].zone]

\* list(groups.loc[groups.indicator == i, "group"])
GroupsOf(md, i) ==
    LET rows == SelectSeq(md["groups"], LAMBDA row : row.indicator = i)
    IN  [n \in DOMAIN rows |-> rows[n].group]

ZoneFails(inst) == ~HasKey(inst, "zone") \/ ~HasKey(inst, "region") \/ ~HasKey(inst, "country")

\* a pruning that looks the zone up in the whole zone column
ZoneValidAnyCountry(md, inst) ==
    Value(inst, "zone") \in SeqToSet(Column(md, "countries", "zone"))

ZoneValid(md, inst) ==
    Value(inst, "zone") \in
        SeqToSet(ZonesOf(md, Value(inst, "region"), Value(inst, "country")))

GroupFails(inst) == ~HasKey(inst, "group") \/ ~HasKey(inst, "indicator")

GroupValid(md, inst) ==
    Value(inst, "group") \in SeqToSet(GroupsOf(md, Value(inst, "indicator")))

\* Thema_data_API.__sort_out_invalid_combinations
sort_out_invalid_combinations(md, list, hourly) ==
    LET fails(inst) ==
            IF hourly THEN ZoneFails(inst) \/ "countries" \notin DOMAIN md
            ELSE \/ GroupFails(inst)
                 \/ "groups" \notin DOMAIN md
                 \/ GroupValid(md, inst) /\ (ZoneFails(inst) \/ "countries" \notin DOMAIN md)
        keep(inst) ==
            IF hourly THEN ZoneValid(md, inst)
            ELSE GroupValid(md, inst) /\ ZoneValid(md, inst)
    IN  IF \E i \in DOMAIN list : fails(list[i])
        THEN [err |-> "KeyError", jsons |-> <<>>]
        ELSE [err |-> "", jsons |-> SelectSeq(list, keep)]

\* technology_masterdata[tech]: the categories of the row indexed by tech
CategoriesOf(md, tech) ==
    LET rows == SelectSeq(md["technologies"], LAMBDA row : row.technology = tech)
    IN  rows[1].categories

TechnologyFails(md, inst) ==
    \/ ~HasKey(inst, "technology")
    \/ ~HasKey(inst, "category")
    \/ Value(inst, "technology") \notin SeqToSet(Column(md, "technologies", "technology"))

\* Thema_technology_data_API.__remove_invalid_combinations
remove_invalid_combinations_technology(md, list) ==
    LET keep(inst) ==
            Value(inst, "category") \in SeqToSet(CategoriesOf(md, Value(inst, "technology")))
    IN  IF "technologies" \notin DOMAIN md \/ \E i \in DOMAIN list : TechnologyFails(md, list[i])
        THEN [err |-> "KeyError", jsons |-> <<>>]
        ELSE [err |-> "", jsons |-> SelectSeq(list, keep)]

\* Thema_hydrogen_data_API.__remove_invalid_combinations
remove_invalid_combinations_hydrogen(md, list) ==
    LET pairs == {<<md["groups"][i].group, md["groups"][i].indicator>> :
                      i \in DOMAIN md["groups"]}   \* set(zip(group, indicator))
        keep(inst) == <<Value(inst, "group"), Value(inst, "indicator")>> \in pairs
    IN  IF "groups" \notin DOMAIN md \/ \E i \in DOMAIN list : GroupFails(list[i])
        THEN [err |-> "KeyError", jsons |-> <<>>]
        ELSE [err |-> "", jsons |-> SelectSeq(list, keep)]

\* the pruning call of get_*_data
Prune(ep, md, list) ==
    CASE ep = "technology" -> remove_invalid_combinations_technology(md, list)
      [] ep = "hydrogen"   -> remove_invalid_combinations_hydrogen(md, list)
      [] OTHER             -> sort_out_invalid_combinations(md, list, ep = "hourly")

----------------------------------------------------------------------------
(* The data endpoints of the remote service and the private __get_*_data   *)

\* rows of a "data" payload; the service may report a column named like a parameter
Row(n) == [value |-> n, zone |-> "raw"]
Payload(n) == [i \in 1..n |-> Row(i)]

\* a response: status, payload ("rows", "empty": no rows under the key,
\* "bad": not extractable), number of rows, latency
DataResponses ==
    { [status |-> 200, payload |-> "rows",  n |-> 1, d |-> 0],
      [status |-> 200, payload |-> "rows",  n |-> 2, d |-> LongDelay],
      [status |-> 200, payload |-> "empty", n |-> 0, d |-> 0],
      [status |-> 200, payload |-> "bad",   n |-> 0, d |-> 0],
      [status |-> 500, payload |-> "error", n |-> 0, d |-> 0],
      [status |-> 500, payload |-> "bad",   n |-> 0, d |-> 0] }

\* for key, value in json.items(): if value: df[key] = value
Truthy(x) == x # NONE /\ x # ""

\* a stamping that keeps a column the payload already has
StampKeepsPayload(row, inst) ==
    LET keys == {inst[i].k : i \in {n \in DOMAIN inst : Truthy(inst[n].v)}}
    IN  [c \in DOMAIN row \cup keys |-> IF c \in DOMAIN row THEN row[c] ELSE Value(inst, c)]

Stamp(row, inst) ==
    LET keys == {inst[i].k : i \in {n \in DOMAIN inst : Truthy(inst[n].v)}}
    IN  [c \in DOMAIN row \cup keys |-> IF c \in keys THEN Value(inst, c) ELSE row[c]]

\* Thema_data_API.__validate_json
validate_json(s, inst, required_fields) ==
    LET missing_fields == SelectSeq(required_fields, LAMBDA f : ~HasKey(inst, f))
        missing_field_values ==
            SelectSeq(required_fields, LAMBDA f : Value(inst, f) \in {NONE, ""})
    IN  IF s.err # "" THEN s
        ELSE IF missing_fields # <<>>
        THEN [s EXCEPT !.err = "SystemExit",
                       !.printed = Append(@, [msg |-> "missing_fields",
                                              fields |-> missing_fields])]
        ELSE IF missing_field_values # <<>>
        THEN [s EXCEPT !.err = "SystemExit",
                       !.printed = Append(@, [msg |-> "missing_values",
                                              fields |-> missing_field_values])]
        ELSE s

\* Thema_API._extract_from_response: [s, n], n the number of rows of the frame
extract_from_response(s, r) ==
    IF r.payload = "bad"
    THEN IF s.cq THEN [s |-> s, n |-> 0] ELSE [s |-> Fatal(s, "no_data"), n |-> 0]
    ELSE [s |-> s, n |-> r.n]

\* a private __get_*_data that also files the instances that gave rows
get_data_files_every_instance(s, ep, inst, r) ==
    LET s1 == IF client = "market" THEN validate_json(s, inst, RequiredFields(ep)) ELSE s
        s2 == RemoteCall(s1, "data", inst, r.status, r.payload, r.d)
        x  == extract_from_response(s2, r)
        s3 == [s2 EXCEPT !.rej[LedgerKind(ep)] = Append(@, inst)]
    IN  IF s1.err # "" THEN [s |-> s1, frame |-> <<>>]
        ELSE IF r.status # 200 THEN [s |-> handle_unexpected_errors(s2, r), frame |-> <<>>]
        ELSE IF x.s.err # "" THEN [s |-> x.s, frame |-> <<>>]
        ELSE IF x.n > 0
        THEN [s |-> IF s2.cq THEN s3 ELSE s2,
              frame |-> [i \in 1..x.n |-> Stamp(Payload(x.n)[i], inst)]]
        ELSE IF s2.cq
        THEN [s |-> s3, frame |-> <<>>]
        ELSE [s |-> Fatal(s2, "no_data"), frame |-> <<>>]

\* a private __get_*_data that posts an empty body instead of its instance
get_data_without_body(s, ep, inst, r) ==
    LET s1 == IF client = "market" THEN validate_json(s, inst, RequiredFields(ep)) ELSE s
        s2 == RemoteCall(s1, "data", <<>>, r.status, r.payload, r.d)
        x  == extract_from_response(s2, r)
    IN  IF s1.err # "" THEN [s |-> s1, frame |-> <<>>]
        ELSE IF r.status # 200 THEN [s |-> handle_unexpected_errors(s2, r), frame |-> <<>>]
        ELSE IF x.s.err # "" THEN [s |-> x.s, frame |-> <<>>]
        ELSE IF x.n > 0
        THEN [s |-> s2, frame |-> [i \in 1..x.n |-> Stamp(Payload(x.n)[i], inst)]]
        ELSE IF s2.cq
        THEN [s |-> [s2 EXCEPT !.rej[LedgerKind(ep)] = Append(@, inst)], frame |-> <<>>]
        ELSE [s |-> Fatal(s2, "no_data"), frame |-> <<>>]

\* __get_hourly_data, __get_monthly_data, __get_GO_data, __get_annual_data,
\* __get_PPA_data: [s, frame]; frame = <<>> stands for the return value None
get_data(s, ep, inst, r) ==
    LET s1 == IF client = "market" THEN validate_json(s, inst, RequiredFields(ep)) ELSE s
        s2 == RemoteCall(s1, "data", inst, r.status, r.payload, r.d)
        x  == extract_from_response(s2, r)
    IN  IF s1.err # "" THEN [s |-> s1, frame |-> <<>>]
        ELSE IF r.status # 200 THEN [s |-> handle_unexpected_errors(s2, r), frame |-> <<>>]
        ELSE IF x.s.err # "" THEN [s |-> x.s, frame |-> <<>>]
        ELSE IF x.n > 0
        THEN [s |-> s2, frame |-> [i \in 1..x.n |-> Stamp(Payload(x.n)[i], inst)]]
        ELSE IF s2.cq
        THEN [s |-> [s2 EXCEPT !.rej[LedgerKind(ep)] = Append(@, inst)], frame |-> <<>>]
        ELSE [s |-> Fatal(s2, "no_data"), frame |-> <<>>]

----------------------------------------------------------------------------
(* Templates the callers of the session pass *)

HourlySingle ==
    << Scalar("scenario", "Base"), Scalar("region", "Nordics"), Scalar("country", "Norway"),
       Scalar("zone", "NO2"), Scalar("edition", "March 2022") >>
HourlyExample ==
    << Scalar("scenario", "Base"), Scalar("region", "Nordics"),
       SetOf("country", {"Norway", "Sweden"}), SetOf("zone", {"NO2", "SE2"}) >>
HourlyNoMatch ==
    << Scalar("scenario", "Base"), Scalar("region", "Nordics"), Scalar("country", "Norway"),
       SetOf("zone", {"SE2"}), Scalar("edition", "March 2022") >>
HourlyIberia ==
    << Scalar("scenario", "Base"), Scalar("region", "Iberia"), Scalar("country", "Spain"),
       Scalar("zone", "ES") >>
HourlyNoRegion ==
    << Scalar("scenario", "Base"), Scalar("country", "Norway"), Scalar("zone", "NO2") >>
MonthlySingle ==
    << Scalar("scenario", "Base"), Scalar("group", "Prices"), Scalar("indicator", "Base price"),
       Scalar("region", "Nordics"), None("edition"), Scalar("country", "Norway"),
       Scalar("zone", "NO2") >>
MonthlyComb ==
    << Scalar("scenario", "Base"), SetOf("group", {"Prices", "Supply"}),
       SetOf("indicator", {"Base price", "Bio"}), Scalar("region", "Nordics"),
       None("edition"), Scalar("country", "Norway"), Scalar("zone", "NO2") >>
AnnualSingle ==
    << Scalar("scenario", "Base"), Scalar("region", "Nordics"), Scalar("country", "Sweden"),
       Scalar("zone", "SE2"), Scalar("group", "Supply"), Scalar("indicator", "Bio"),
       Scalar("edition", "September 2022") >>
AnnualComb ==
    << Scalar("scenario", "Base"), Scalar("region", "Nordics"), Scalar("country", "Sweden"),
       SetOf("zone", {"SE2", "NO2"}), Scalar("group", "Supply"), Scalar("indicator", "Bio"),
       Scalar("edition", "September 2022") >>
AnnualNoGroup ==
    << Scalar("scenario", "Base"), Scalar("region", "Nordics"), Scalar("country", "Sweden"),
       Scalar("zone", "SE2"), Scalar("indicator", "Bio"), Scalar("edition", "September 2022") >>
GOSingle ==
    << Scalar("scenario", "Base"), Scalar("edition", "March 2022"), Scalar("zone", "ES"),
       Scalar("group", "Supply"), Scalar("indicator", "Bio") >>
GOExample ==
    << Scalar("scenario", "Base"), None("edition"), SetOf("zone", {"ES", "NO2"}),
       Scalar("group", "Supply"), Scalar("indicator", "Bio") >>
PPASingle ==
    << Scalar("scenario", "Base"), Scalar("edition", "March 2022"), Scalar("zone", "ES"),
       Scalar("group", "Supply") >>
PPAComb ==
    << Scalar("scenario", "Base"), SetOf("zone", {"ES", "NO2"}), Scalar("group", "Supply") >>
TechSingle ==
    << Scalar("scenario", "Base"), Scalar("country", "Norway"), Scalar("indicator", "Capex"),
       Scalar("technology", "Wind"), Scalar("category", "Onshore"),
       Scalar("edition", "March 2022") >>
TechComb ==
    << Scalar("scenario", "Base"), Scalar("country", "Norway"), Scalar("indicator", "Capex"),
       SetOf("technology", {"Wind", "Solar"}), SetOf("category", {"Onshore", "Rooftop"}) >>
TechUnknown ==
    << Scalar("scenario", "Base"), Scalar("country", "Norway"), Scalar("indicator", "Capex"),
       SetOf("technology", {"Wind", "Hydro"}), Scalar("category", "Onshore") >>
HydrogenSingle ==
    << Scalar("scenario", "Base"), Scalar("country", "Norway"), Scalar("group", "Supply"),
       Scalar("indicator", "Bio"), Scalar("edition", "March 2022") >>
HydrogenComb ==
    << Scalar("scenario", "Base"), Scalar("country", "Norway"),
       SetOf("group", {"Prices", "Supply", "Hydro"}), Scalar("indicator", "Bio") >>

Templates(ep) ==
    CASE ep = "hourly"     -> {HourlySingle, HourlyExample, HourlyNoMatch, HourlyIberia,
                               HourlyNoRegion}
      [] ep = "monthly"    -> {MonthlySingle, MonthlyComb}
      [] ep = "annual"     -> {AnnualSingle, AnnualComb, AnnualNoGroup}
      [] ep = "GO"         -> {GOSingle, GOExample}
      [] ep = "PPA"        -> {PPASingle, PPAComb}
      [] ep = "technology" -> {TechSingle, TechComb, TechUnknown}
      [] ep = "hydrogen"   -> {HydrogenSingle, HydrogenComb}

----------------------------------------------------------------------------
(* The session: public calls on one client object *)

NoReturn == [kind |-> "nothing", rows |-> <<>>]

Init ==
    /\ client \in Clients
    /\ hashseed \in {0, 1}
    /\ now = StartTime
    /\ token_timestamp = 0
    /\ authorization_header = 0
    /\ master_data = <<>>
    /\ md_fetch = <<>>
    /\ combination_query = FALSE
    /\ rejected_combinations = [k \in Kinds |-> <<>>]
    /\ pc = "idle"
    /\ cur = [op |-> "none", comb |-> FALSE, template |-> <<>>]
    /\ json = <<>>
    /\ product = <<>>
    /\ jsons = <<>>
    /\ idx = 0
    /\ frames = <<>>
    /\ calls = <<>>
    /\ printed = <<>>
    /\ outcome = "none"
    /\ ret = NoReturn
    /\ ncalls = 0
    /\ crashed = FALSE
    /\ threads = <<>>

\* a client that empties its ledger when a call raises
CommitClearsLedgerOnError(s) ==
    /\ now' = s.now
    /\ token_timestamp' = s.ts
    /\ authorization_header' = s.hdr
    /\ master_data' = s.md
    /\ md_fetch' = s.src
    /\ combination_query' = s.cq
    /\ rejected_combinations' = IF s.err # "" THEN [k \in Kinds |-> <<>>] ELSE s.rej
    /\ calls' = s.calls
    /\ printed' = s.printed
    /\ crashed' = (crashed \/ s.err # "")

Commit(s) ==
    /\ now' = s.now
    /\ token_timestamp' = s.ts
    /\ authorization_header' = s.hdr
    /\ master_data' = s.md
    /\ md_fetch' = s.src
    /\ combination_query' = s.cq
    /\ rejected_combinations' = s.rej
    /\ calls' = s.calls
    /\ printed' = s.printed
    /\ crashed' = (crashed \/ s.err # "")

CanCall == pc # "requesting" /\ ncalls < MaxCalls

\* a concatenation that returns an empty table where pd.concat raises
ConcatReturnsEmpty(frs) == FALSE

\* pd.concat raises ValueError on an empty list and on a list that holds only None
ConcatRaises(frs) == \A i \in DOMAIN frs : frs[i] = <<>>

\* get_master_data() of the three classes
GetMasterData ==
    /\ CanCall
    /\ \E lr \in LoginResponses, mr \in MasterDataResponses(TRUE) :
       \E s \in {get_master_data(Client0, lr, mr)} :
              /\ Commit(s)
              /\ outcome' = IF s.err = "" THEN "return" ELSE s.err
              /\ ret' = IF s.err = "" THEN [kind |-> "master_data", rows |-> <<>>]
                        ELSE NoReturn
    /\ pc' = "done"
    /\ cur' = [op |-> "get_master_data", comb |-> FALSE, template |-> <<>>]
    /\ json' = <<>> /\ product' = <<>> /\ jsons' = <<>> /\ idx' = 0 /\ frames' = <<>>
    /\ ncalls' = ncalls + 1
    /\ UNCHANGED <<client, hashseed, threads>>

\* the catalog load at the head of get_*_data: only when master_data is empty in
\* Thema_data_API, always in the technology and hydrogen classes
LoadCatalog(s, lr, mr) ==
    IF client = "market" /\ DOMAIN s.md # {} THEN s ELSE get_master_data(s, lr, mr)

\* get_hourly_data, get_monthly_data, get_annual_data, get_GO_data, get_PPA_data and
\* the get_annual_data of the technology and hydrogen classes, up to the first
\* data request
Begin ==
    /\ CanCall
    /\ \E ep \in EndpointsOf(client) :
       \E tmpl \in Templates(ep), lr \in LoginResponses,
          mr \in MasterDataResponses(client # "market" \/ DOMAIN master_data = {}) :
       \E s2 \in {LoadCatalog(get_authorization_token(Client0, lr), lr, mr)} :
       \E st \in {IF s2.err = "" THEN Defaulting(ep, s2.md, tmpl)
                  ELSE [json |-> tmpl, err |-> "", msg |-> ""]} :
       \E s3 \in {IF st.msg # "" THEN Fatal(s2, st.msg)
                  ELSE IF st.err # "" THEN Raise(s2, st.err) ELSE s2} :
       \E comb \in {s3.err = "" /\ AnySet(st.json)} :
       \E prod \in {IF comb THEN create_query_combinations(st.json, hashseed) ELSE <<>>} :
       \E pr \in {IF comb THEN Prune(ep, s3.md, prod)
                  ELSE IF s3.err = "" THEN [err |-> "", jsons |-> <<AsInstance(st.json)>>]
                  ELSE [err |-> "", jsons |-> <<>>]} :
       \* _create_query_combinations sets the flag before anything else
       \E s4 \in {IF comb THEN [s3 EXCEPT !.cq = TRUE] ELSE s3} :
       \E s5 \in {IF pr.err # "" THEN Raise(s4, pr.err)
                  \* pd.concat of an empty list raises inside the try
                  ELSE IF comb /\ pr.jsons = <<>> /\ ConcatRaises(<<>>)
                  THEN Fatal(s4, "no_valid_combinations")
                  ELSE s4} :
          /\ Commit(s5)
          /\ pc' = IF s5.err = "" /\ pr.jsons # <<>> THEN "requesting" ELSE "done"
          /\ outcome' = IF s5.err # "" THEN s5.err
                        ELSE IF pr.jsons # <<>> THEN "running" ELSE "return"
          /\ ret' = IF s5.err = "" /\ pr.jsons = <<>>
                    THEN [kind |-> "None", rows |-> <<>>] ELSE NoReturn
          /\ cur' = [op |-> ep, comb |-> comb, template |-> tmpl]
          /\ json' = st.json
          /\ product' = prod
          /\ jsons' = pr.jsons
    /\ idx' = 0
    /\ frames' = <<>>
    /\ ncalls' = ncalls + 1
    /\ UNCHANGED <<client, hashseed, threads>>

\* one call of the private __get_*_data, on the next instance; after the last one
\* the frames are merged and the public method returns
Request ==
    /\ pc = "requesting"
    /\ \E r \in DataResponses :
       \E g \in {get_data([Client0 EXCEPT !.calls = calls, !.printed = printed],
                          cur.op, jsons[idx + 1], r)} :
       \E fr \in {Append(frames, g.frame)} :
       \E last \in {idx + 1 = Len(jsons)} :
       \E s1 \in {IF g.s.err # ""
                  \* the bare except of the combination branch catches every exception
                  THEN IF cur.comb THEN Fatal(g.s, "no_valid_combinations") ELSE g.s
                  \* pd.concat raises when every frame is None
                  ELSE IF last /\ cur.comb /\ ConcatRaises(fr)
                  THEN Fatal(g.s, "no_valid_combinations")
                  ELSE g.s} :
          /\ Commit(s1)
          /\ frames' = fr
          /\ pc' = IF s1.err # "" \/ last THEN "done" ELSE "requesting"
          /\ outcome' = IF s1.err # "" THEN s1.err
                        ELSE IF last THEN "return" ELSE "running"
          /\ ret' = IF s1.err = "" /\ last
                    THEN IF ConcatAll(fr) = <<>> THEN [kind |-> "None", rows |-> <<>>]
                         ELSE [kind |-> "table", rows |-> ConcatAll(fr)]
                    ELSE NoReturn
    /\ idx' = idx + 1
    /\ UNCHANGED <<client, hashseed, cur, json, product, jsons, ncalls, threads>>

\* the order of the keys of self.rejected_combinations
KindOrder == <<"Hourly", "Annual", "Monthly", "GO", "PPA">>

\* the rows of the overview: every ledger entry with its Query_type
Overview(rej) ==
    ConcatAll([k \in DOMAIN KindOrder |->
        [i \in DOMAIN rej[KindOrder[k]] |->
            [Query_type |-> KindOrder[k], combination |-> rej[KindOrder[k]][i]]]])

\* Thema_data_API.get_rejected_combinations; the overview can still be asked for
\* after the last of the MaxCalls calls
GetRejectedCombinations ==
    /\ pc # "requesting"
    /\ ncalls <= MaxCalls
    /\ client = "market"
    /\ ret' = IF rejected_combinations["Hourly"] # <<>> \/ rejected_combinations["Annual"] # <<>>
              THEN [kind |-> "overview", rows |-> Overview(rejected_combinations)]
              ELSE [kind |-> "DataFrameClass", rows |-> <<>>]
    /\ pc' = "done"
    /\ outcome' = "return"
    /\ cur' = [op |-> "get_rejected_combinations", comb |-> FALSE, template |-> <<>>]
    /\ json' = <<>> /\ product' = <<>> /\ jsons' = <<>> /\ idx' = 0 /\ frames' = <<>>
    /\ calls' = <<>> /\ printed' = <<>>
    /\ ncalls' = ncalls + 1
    /\ UNCHANGED <<client, hashseed, now, token_timestamp, authorization_header, master_data,
                   md_fetch, combination_query, rejected_combinations, crashed, threads>>

\* time passes between two calls
Wait ==
    /\ pc # "requesting"
    /\ now + LongDelay <= MaxNow
    /\ now' = now + LongDelay
    /\ UNCHANGED <<client, hashseed, token_timestamp, authorization_header, master_data,
                   md_fetch, combination_query, rejected_combinations, pc, cur, json, product,
                   jsons, idx, frames, calls, printed, outcome, ret, ncalls, crashed, threads>>

Next == GetMasterData \/ Begin \/ Request \/ GetRejectedCombinations \/ Wait

Spec == Init /\ [][Next]_vars

----------------------------------------------------------------------------
(* Expansion on its own: defaulting, _create_query_combinations and        *)
(* pruning applied to every template over the options below, on a client   *)
(* whose catalog is loaded                                                 *)

\* the values a caller may give a parameter (or leave it out)
Options(ep, field) ==
    CASE field = "scenario" ->
            IF ep \in {"monthly", "annual", "GO", "PPA"} THEN {Scalar(field, "Base")}
            ELSE {Scalar(field, "Base"), SetOf(field, {"Base", "Low"})}
      [] field = "region" ->
            IF ep = "hourly"
            THEN {Scalar(field, "Nordics"), None(field), SetOf(field, {"Nordics", "Iberia"})}
            ELSE {Scalar(field, "Nordics")}
      [] field = "country" ->
            IF ep = "hourly"
            THEN {Scalar(field, "Norway"), SetOf(field, {"Norway", "Sweden"}),
                  SetOf(field, {"Sweden", "Spain"})}
            ELSE IF ep \in {"monthly", "annual"}
            THEN {Scalar(field, "Norway"), SetOf(field, {"Norway", "Sweden"})}
            ELSE {Scalar(field, "Norway")}
      [] field = "zone" ->
            IF ep \in {"monthly", "annual"}
            THEN {Scalar(field, "NO2"), SetOf(field, {"NO2", "SE2"})}
            ELSE {Scalar(field, "NO2"), SetOf(field, {"NO2", "SE2"}),
                  SetOf(field, {"SE2", "ES"})}
      [] field = "edition" -> {Scalar(field, "March 2022")}
      [] field = "group" ->
            {Scalar(field, "Prices"), SetOf(field, {"Prices", "Supply"}),
             SetOf(field, {"Supply", "Hydro"})}
      [] field = "indicator" ->
            IF ep = "technology" THEN {Scalar(field, "Capex")}
            ELSE {Scalar(field, "Base price"), SetOf(field, {"Base price", "Bio"})}
      [] field = "technology" ->
            {Scalar(field, "Wind"), SetOf(field, {"Wind", "Solar"}),
             SetOf(field, {"Wind", "Hydro"})}
      [] field = "category" ->
            {Scalar(field, "Onshore"), SetOf(field, {"Onshore", "Rooftop"})}

\* the parameters of an endpoint, in the order the example scripts write them
Parameters(ep) ==
    CASE ep = "hourly"  -> <<"scenario", "region", "edition", "country", "zone">>
      [] ep \in {"monthly", "annual"} ->
            <<"scenario", "group", "indicator", "region", "edition", "country", "zone">>
      [] ep = "GO"      -> <<"scenario", "edition", "zone", "group", "indicator">>
      [] ep = "PPA"     -> <<"scenario", "edition", "zone", "group">>
      [] ep = "technology" ->
            <<"scenario", "country", "indicator", "technology", "category", "edition">>
      [] ep = "hydrogen" -> <<"scenario", "country", "group", "indicator", "edition">>

RECURSIVE TemplatesOver(_, _)
TemplatesOver(ep, fields) ==
    IF fields = <<>> THEN {<<>>}
    ELSE LET rest == TemplatesOver(ep, Tail(fields))
         IN  rest \cup {<<e>> \o r : e \in Options(ep, Head(fields)), r \in rest}

EmptyClient ==
    [now |-> StartTime, ts |-> StartTime, hdr |-> 1, md |-> <<>>, src |-> <<>>, cq |-> FALSE,
     rej |-> [k \in Kinds |-> <<>>], calls |-> <<>>, printed |-> <<>>, err |-> ""]

\* the catalogs a successful get_master_data leaves on a new client
Catalogs(c) ==
    CASE c = "market"     -> {MarketStore(EmptyClient, MarketBodyA).md,
                              MarketStore(EmptyClient, MarketBodyB).md}
      [] c = "technology" -> {FlatStore(EmptyClient, TechBodyA).md}
      [] c = "hydrogen"   -> {FlatStore(EmptyClient, HydrogenBodyA).md}

InitExpand ==
    /\ client \in Clients
    /\ hashseed \in {0, 1}
    /\ now = StartTime
    /\ token_timestamp = StartTime
    /\ authorization_header = 1
    /\ master_data \in Catalogs(client)
    /\ md_fetch = [k \in DOMAIN master_data |-> 1]
    /\ combination_query = FALSE
    /\ rejected_combinations = [k \in Kinds |-> <<>>]
    /\ pc = "idle"
    /\ \E ep \in EndpointsOf(client) :
       \E tmpl \in TemplatesOver(ep, Parameters(ep)) :
          cur = [op |-> ep, comb |-> FALSE, template |-> tmpl]
    /\ json = <<>>
    /\ product = <<>>
    /\ jsons = <<>>
    /\ idx = 0
    /\ frames = <<>>
    /\ calls = <<>>
    /\ printed = <<>>
    /\ outcome = "none"
    /\ ret = NoReturn
    /\ ncalls = 0
    /\ crashed = FALSE
    /\ threads = <<>>

\* the statements of get_*_data from the defaulting to the pruning
Expand ==
    /\ pc = "idle"
    /\ cur.op \in Endpoints
    /\ \E st \in {Defaulting(cur.op, master_data, cur.template)} :
       \E comb \in {st.err = "" /\ AnySet(st.json)} :
       \E prod \in {IF comb THEN create_query_combinations(st.json, hashseed) ELSE <<>>} :
       \E pr \in {IF comb THEN Prune(cur.op, master_data, prod)
                  ELSE IF st.err = "" THEN [err |-> "", jsons |-> <<AsInstance(st.json)>>]
                  ELSE [err |-> "", jsons |-> <<>>]} :
          /\ json' = st.json
          /\ product' = prod
          /\ jsons' = pr.jsons
          /\ cur' = [cur EXCEPT !.comb = comb]
          /\ combination_query' = (combination_query \/ comb)
          /\ outcome' = IF st.err # "" THEN st.err
                        ELSE IF pr.err # "" THEN pr.err ELSE "running"
          /\ printed' = IF st.msg # "" THEN <<[msg |-> st.msg, fields |-> <<>>]>> ELSE <<>>
    /\ pc' = "expanded"
    /\ UNCHANGED <<client, hashseed, now, token_timestamp, authorization_header, master_data,
                   md_fetch, rejected_combinations, idx, frames, calls, ret, ncalls, crashed,
                   threads>>

SpecExpand == InitExpand /\ [][Expand]_vars

----------------------------------------------------------------------------
(* __validate_json on its own: applied to every instance over the fields   *)
(* below, each left out or given a value, an empty string or None          *)

ValidatedFields == <<"scenario", "region", "country", "zone", "group">>

RECURSIVE InstancesOver(_)
InstancesOver(fields) ==
    IF fields = <<>> THEN {<<>>}
    ELSE LET rest == InstancesOver(Tail(fields))
         IN  rest \cup {<<[k |-> Head(fields), v |-> x]>> \o r :
                            x \in {"Base", "", NONE}, r \in rest}

InitValidate ==
    /\ client = "market"
    /\ hashseed = 0
    /\ now = StartTime
    /\ token_timestamp = StartTime
    /\ authorization_header = 1
    /\ master_data = <<>>
    /\ md_fetch = <<>>
    /\ combination_query = FALSE
    /\ rejected_combinations = [k \in Kinds |-> <<>>]
    /\ pc = "idle"
    /\ \E ep \in {"hourly", "monthly", "GO"} :
          cur = [op |-> ep, comb |-> FALSE, template |-> <<>>]
    /\ json = <<>>
    /\ product = <<>>
    /\ \E inst \in InstancesOver(ValidatedFields) : jsons = <<inst>>
    /\ idx = 0
    /\ frames = <<>>
    /\ calls = <<>>
    /\ printed = <<>>
    /\ outcome = "none"
    /\ ret = NoReturn
    /\ ncalls = 0
    /\ crashed = FALSE
    /\ threads = <<>>

\* self.__validate_json(json, required_fields)
Validate ==
    /\ pc = "idle"
    /\ \E s \in {validate_json(EmptyClient, jsons[1], RequiredFields(cur.op))} :
          /\ printed' = s.printed
          /\ outcome' = IF s.err = "" THEN "return" ELSE s.err
    /\ pc' = "validated"
    /\ UNCHANGED <<client, hashseed, now, token_timestamp, authorization_header, master_data,
                   md_fetch, combination_query, rejected_combinations, cur, json, product,
                   jsons, idx, frames, calls, ret, ncalls, crashed, threads>>

SpecValidate == InitValidate /\ [][Validate]_vars

----------------------------------------------------------------------------
(* __get_newest_edition on its own: applied to every edition relation of up *)
(* to MaxEditions rows over the strings and regions below, with the region  *)
(* argument left out, a str or a set                                        *)

EditionStrings == {"March 2022", "September 2022", "June 1969", "garbage"}
EditionRegions == {"Nordics", "Iberia"}

RECURSIVE RelationsOver(_)
RelationsOver(n) ==
    IF n = 0 THEN {<<>>}
    ELSE LET shorter == RelationsOver(n - 1)
         IN  shorter \cup {Append(r, [edition |-> e, region |-> g]) :
                               r \in {x \in shorter : Len(x) = n - 1},
                               e \in EditionStrings, g \in EditionRegions}

\* the region argument: None, a str of the catalog or not, a set of catalog regions
RegionArguments ==
    {None("region"), Scalar("region", "Nordics"), Scalar("region", "Iberia"),
     Scalar("region", "Atlantis"), SetOf("region", {"Nordics"}),
     SetOf("region", {"Nordics", "Iberia"})}

InitNewest ==
    /\ client = "market"
    /\ hashseed = 0
    /\ now = StartTime
    /\ token_timestamp = StartTime
    /\ authorization_header = 1
    /\ \E r \in RelationsOver(MaxEditions) \ {<<>>} : master_data = ("editions" :> r)
    /\ md_fetch = ("editions" :> 1)
    /\ combination_query = FALSE
    /\ rejected_combinations = [k \in Kinds |-> <<>>]
    /\ pc = "idle"
    /\ cur = [op |-> "get_newest_edition", comb |-> FALSE, template |-> <<>>]
    /\ \E region \in RegionArguments : json = <<region>>
    /\ product = <<>>
    /\ jsons = <<>>
    /\ idx = 0
    /\ frames = <<>>
    /\ calls = <<>>
    /\ printed = <<>>
    /\ outcome = "none"
    /\ ret = NoReturn
    /\ ncalls = 0
    /\ crashed = FALSE
    /\ threads = <<>>

\* self.__get_newest_edition(region)
Newest ==
    /\ pc = "idle"
    /\ \E e \in {get_newest_edition(master_data, json[1])} :
          /\ printed' = IF e.msg # "" THEN <<[msg |-> e.msg, fields |-> <<>>]>> ELSE <<>>
          /\ outcome' = IF e.err = "" THEN "return" ELSE e.err
          /\ ret' = IF e.err = "" THEN [kind |-> "edition", rows |-> <<e.edition>>]
                    ELSE NoReturn
    /\ pc' = "looked_up"
    /\ UNCHANGED <<client, hashseed, now, token_timestamp, authorization_header, master_data,
                   md_fetch, combination_query, rejected_combinations, cur, json, product,
                   jsons, idx, frames, calls, ncalls, crashed, threads>>

SpecNewest == InitNewest /\ [][Newest]_vars

----------------------------------------------------------------------------
(* _get_authorization_token run by several threads on one client object.    *)
(* The method takes no lock: the expiry test, the login request and the      *)
(* assignments of the 200 branch are separate steps of each thread, and a    *)
(* thread can be preempted between them (requests.post blocks on the         *)
(* network).  threads[t].pc is "idle" outside the method, "post" after an    *)
(* expiry test that held, "waiting" while the login request is in flight and *)
(* "exited" after an exception.                                              *)

Threads == 1 .. MaxThreads

InitConcurrent ==
    /\ client = "market"
    /\ hashseed = 0
    /\ now = StartTime
    /\ token_timestamp = 0
    /\ authorization_header = 0
    /\ master_data = <<>>
    /\ md_fetch = <<>>
    /\ combination_query = FALSE
    /\ rejected_combinations = [k \in Kinds |-> <<>>]
    /\ pc = "idle"
    /\ cur = [op |-> "none", comb |-> FALSE, template |-> <<>>]
    /\ json = <<>>
    /\ product = <<>>
    /\ jsons = <<>>
    /\ idx = 0
    /\ frames = <<>>
    /\ calls = <<>>
    /\ printed = <<>>
    /\ outcome = "none"
    /\ ret = NoReturn
    /\ ncalls = 0
    /\ crashed = FALSE
    /\ threads = [t \in Threads |-> [pc |-> "idle", status |-> 0, err |-> "", checks |-> 0]]

\* if self.token_timestamp + self.token_validity_time < time.time() + 20
ExpiryTest(t) ==
    /\ threads[t].pc = "idle"
    /\ threads[t].checks < MaxChecks
    /\ threads' = [threads EXCEPT ![t].pc = IF Expired THEN "post" ELSE "idle",
                                  ![t].checks = @ + 1]
    /\ UNCHANGED <<client, hashseed, now, token_timestamp, authorization_header, master_data,
                   md_fetch, combination_query, rejected_combinations, pc, cur, json, product,
                   jsons, idx, frames, calls, printed, outcome, ret, ncalls, crashed>>

\* response = requests.post(self.authorization_url, json=token_payload): the
\* request leaves, the thread blocks until the response is there
PostLogin(t) ==
    /\ threads[t].pc = "post"
    /\ \E status \in LoginStatuses :
          /\ calls' = RemoteCall([Client0 EXCEPT !.calls = calls],
                                 "login", <<>>, status, "", 0).calls
          /\ threads' = [threads EXCEPT ![t].pc = "waiting", ![t].status = status]
    /\ UNCHANGED <<client, hashseed, now, token_timestamp, authorization_header, master_data,
                   md_fetch, combination_query, rejected_combinations, pc, cur, json, product,
                   jsons, idx, frames, printed, outcome, ret, ncalls, crashed>>

\* the branches on response.status_code
ReceiveLogin(t) ==
    /\ threads[t].pc = "waiting"
    /\ \E s \in {CASE threads[t].status = 200 ->
                         [Client0 EXCEPT !.printed = printed, !.hdr = @ + 1, !.ts = now]
                    [] threads[t].status = 401 ->
                         Fatal([Client0 EXCEPT !.printed = printed], "unauthorized")
                    [] OTHER ->
                         Raise([Client0 EXCEPT !.printed = printed], "AttributeError")} :
          /\ token_timestamp' = s.ts
          /\ authorization_header' = s.hdr
          /\ printed' = s.printed
          /\ threads' = [threads EXCEPT ![t].pc = IF s.err = "" THEN "idle" ELSE "exited",
                                        ![t].err = s.err]
    /\ UNCHANGED <<client, hashseed, now, master_data, md_fetch, combination_query,
                   rejected_combinations, pc, cur, json, product, jsons, idx, frames, calls,
                   outcome, ret, ncalls, crashed>>

NextConcurrent ==
    \/ \E t \in Threads : ExpiryTest(t)
    \/ \E t \in Threads : PostLogin(t)
    \/ \E t \in Threads : ReceiveLogin(t)
    \/ Wait

SpecConcurrent == InitConcurrent /\ [][NextConcurrent]_vars

----------------------------------------------------------------------------
(* Properties *)

CatalogA == MarketStore(EmptyClient, MarketBodyA).md

\* the pruning call of the running get_*_data raised
PruningRaised == cur.comb /\ idx = 0 /\ outcome = "KeyError"

\* the pruning call of the running get_*_data returned
Pruned == cur.op \in Endpoints /\ cur.comb /\ ~PruningRaised

Survives(inst) == \E k \in DOMAIN jsons : jsons[k] = inst

Triple(inst) ==
    [region |-> Value(inst, "region"), country |-> Value(inst, "country"),
     zone |-> Value(inst, "zone")]

\* C1: an instance of the product survives the pruning of get_hourly_data exactly
\* when its (region, country, zone) triple is a row of the countries relation, and
\* survives the pruning of get_monthly_data / get_annual_data only when it is; the
\* template {scenario: Base, region: Nordics, country: {Norway, Sweden},
\* zone: {NO2, SE2}} yields exactly (Norway, NO2) and (Sweden, SE2).
C1_ZonePruning ==
    (Pruned /\ cur.op \in {"hourly", "monthly", "annual"}) =>
        /\ \A i \in DOMAIN product :
              LET valid == Triple(product[i]) \in SeqToSet(master_data["countries"])
              IN  IF cur.op = "hourly" THEN Survives(product[i]) <=> valid
                  ELSE Survives(product[i]) => valid
        /\ (cur.op = "hourly" /\ cur.template = HourlyExample /\ master_data = CatalogA) =>
              /\ Len(product) = 4
              /\ Len(jsons) = 2
              /\ {<<Value(jsons[k], "country"), Value(jsons[k], "zone")>> : k \in DOMAIN jsons}
                     = {<<"Norway", "NO2">>, <<"Sweden", "SE2">>}

C1_Witness ==
    /\ Pruned
    /\ cur.op = "hourly"
    /\ cur.template = HourlyExample
    /\ master_data = CatalogA
    /\ Len(product) = 4
    /\ Len(jsons) = 2

\* the (group, indicator) pair, or in the technology family the (technology,
\* category) pair, of the instance is a row of the catalog's relation
PairLegal(inst) ==
    IF cur.op = "technology"
    THEN \E r \in SeqToSet(master_data["technologies"]) :
            /\ r.technology = Value(inst, "technology")
            /\ Value(inst, "category") \in SeqToSet(r.categories)
    ELSE \E r \in SeqToSet(master_data["groups"]) :
            r.group = Value(inst, "group") /\ r.indicator = Value(inst, "indicator")

\* C2: in the monthly, annual, hydrogen and technology families the pruning of a
\* product never fails, whatever group or technology values the instances carry,
\* and every instance it keeps has a legal (group, indicator) or (technology,
\* category) pair.
C2_PairPruning ==
    (cur.op \in {"monthly", "annual", "hydrogen", "technology"} /\ cur.comb) =>
        /\ ~PruningRaised
        /\ \A i \in DOMAIN product : Survives(product[i]) => PairLegal(product[i])

\* the last remote call of the running public call
LastCall == calls[Len(calls)]

\* C3: every master-data fetch and every data request is sent with a token whose
\* remaining validity, issuedAt + 600 - now, is at least 20 seconds.
C3_TokenMargin ==
    \A i \in DOMAIN calls :
        calls[i].type \in {"masterdata", "data"} => calls[i].remaining >= SafetyMargin

\* the step is a data request of the running call answered with status 200 and a
\* payload in the given set
Answered(payloads) ==
    /\ pc = "requesting"
    /\ Len(calls') = Len(calls) + 1
    /\ calls'[Len(calls')].type = "data"
    /\ calls'[Len(calls')].status = 200
    /\ calls'[Len(calls')].payload \in payloads

\* C4: when the template of a get_*_data call has no set-valued field after
\* defaulting, a 200 response with an empty or unextractable payload ends the call
\* in the fatal 'no data' error and leaves the ledger as it was, whatever calls
\* were made on the client before.
C4_SingleEmptyFatal ==
    [][ (Answered({"empty", "bad"}) /\ ~cur.comb /\ ~crashed) =>
            /\ outcome' = "SystemExit"
            /\ printed' # <<>>
            /\ printed'[Len(printed')].msg = "no_data"
            /\ rejected_combinations' = rejected_combinations ]_vars

\* the ledger after one more entry under the kind
Ledgered(kind, inst) ==
    /\ kind \in DOMAIN rejected_combinations'
    /\ DOMAIN rejected_combinations' = DOMAIN rejected_combinations
    /\ rejected_combinations'[kind] = Append(rejected_combinations[kind], inst)
    /\ \A k \in DOMAIN rejected_combinations \ {kind} :
          rejected_combinations'[k] = rejected_combinations[k]

\* no 'no data' error for the instance, and the batch goes on to the next one
NotFatalAndContinues ==
    /\ \A i \in DOMAIN printed' : printed'[i].msg # "no_data"
    /\ idx + 1 < Len(jsons) => (pc' = "requesting" /\ outcome' = "running" /\ idx' = idx + 1)

\* C5 as stated: in combinatorial mode an instance answered with status 200 and
\* an empty payload is appended once to the ledger under the kind of its endpoint,
\* one of Hourly, Monthly, Annual, GO, PPA and Technology, without a fatal error
\* for it, and the later instances are still requested.
C5_LedgeredUnderNamedKind ==
    [][ LET NamedKind(ep) ==
                CASE ep = "hourly"     -> "Hourly"
                  [] ep = "monthly"    -> "Monthly"
                  [] ep = "annual"     -> "Annual"
                  [] ep = "GO"         -> "GO"
                  [] ep = "PPA"        -> "PPA"
                  [] ep = "technology" -> "Technology"
        IN  (Answered({"empty"}) /\ cur.comb /\ cur.op # "hydrogen") =>
                /\ Ledgered(NamedKind(cur.op), jsons[idx + 1])
                /\ NotFatalAndContinues ]_vars

\* the keys of self.rejected_combinations the classes file their endpoints under
FiledUnder(ep) ==
    CASE ep = "hourly"     -> "Hourly"
      [] ep = "monthly"    -> "Monthly"
      [] ep = "annual"     -> "Annual"
      [] ep = "GO"         -> "GO"
      [] ep = "PPA"        -> "PPA"
      [] ep = "technology" -> "Annual"
      [] ep = "hydrogen"   -> "Annual"

\* C5: in combinatorial mode an instance answered with status 200 and an empty
\* payload is appended once to the ledger, under Hourly, Monthly, Annual, GO or
\* PPA for the market endpoints and under Annual for the technology and hydrogen
\* endpoints; no 'no data' error is raised for it, and unless it is the last
\* instance the batch goes on to the next one.
C5_LedgeredUnderKind ==
    [][ (Answered({"empty"}) /\ cur.comb) =>
            /\ Ledgered(FiledUnder(cur.op), jsons[idx + 1])
            /\ NotFatalAndContinues ]_vars

C5_Witness ==
    /\ cur.op = "technology"
    /\ cur.comb
    /\ pc = "requesting"
    /\ idx = 1
    /\ LastCall.type = "data" /\ LastCall.status = 200 /\ LastCall.payload = "empty"
    /\ rejected_combinations["Annual"] = <<jsons[1]>>
    /\ outcome = "running"

\* C6: get_rejected_combinations returns an overview holding every entry of the
\* ledger, tagged with its kind, whenever the ledger of any kind is non-empty.
C6_OverviewComplete ==
    (cur.op = "get_rejected_combinations" /\ pc = "done" /\ ~crashed) =>
        \A k \in Kinds :
            rejected_combinations[k] # <<>> =>
                /\ ret.kind = "overview"
                /\ ret.rows # <<>>
                /\ \A i \in DOMAIN rejected_combinations[k] :
                      [Query_type |-> k, combination |-> rejected_combinations[k][i]]
                          \in SeqToSet(ret.rows)

\* C7: once the catalog is loaded, a get_*_data call sends no master-data request
\* and leaves the catalog as it was.
C7_LoadedOnce ==
    [][ (ncalls' = ncalls + 1 /\ DOMAIN master_data # {} /\ ~crashed
            /\ cur'.op \in Endpoints) =>
            /\ \A i \in DOMAIN calls' : calls'[i].type # "masterdata"
            /\ master_data' = master_data ]_vars

\* C8: the relations of the catalog all come from one and the same fetch.
C8_OneFetch ==
    \A k1, k2 \in DOMAIN md_fetch : md_fetch[k1] = md_fetch[k2]

\* all values of the dimension in the catalog of the client
DimensionValues(field) ==
    IF client = "market"
    THEN CASE field = "scenario" -> {r.scenario : r \in SeqToSet(master_data["scenario"])}
           [] field = "zone"     -> {r.zone : r \in SeqToSet(master_data["countries"])}
           [] field = "country"  -> {r.country : r \in SeqToSet(master_data["countries"])}
           [] field = "region"   -> {r.region : r \in SeqToSet(master_data["countries"])}
           [] field = "group"    -> {r.group : r \in SeqToSet(master_data["groups"])}
           [] field = "indicator" -> {r.indicator : r \in SeqToSet(master_data["groups"])}
    ELSE CASE field = "scenario" -> {r.scenarios : r \in SeqToSet(master_data["scenarios"])}
           [] field = "country"  -> {r.countries : r \in SeqToSet(master_data["countries"])}
           [] field = "group"    -> {r.group : r \in SeqToSet(master_data["groups"])}
           [] field = "indicator" ->
                 IF client = "technology"
                 THEN {r.indicator : r \in SeqToSet(master_data["indicators"])}
                 ELSE {r.indicator : r \in SeqToSet(master_data["groups"])}
           [] field = "technology" ->
                 {r.technology : r \in SeqToSet(master_data["technologies"])}
           [] field = "category" ->
                 UNION {SeqToSet(r.categories) : r \in SeqToSet(master_data["technologies"])}

\* the statements from the defaulting to the pruning have run on a loaded catalog
Expanded == pc = "expanded" /\ cur.op \in Endpoints

\* the call ended before the expansion
FailedBeforeExpansion == ~cur.comb /\ outcome # "running"

\* C9: with the catalog loaded, a get_*_data call does not fail while it fills in
\* the fields the caller left out: every such field other than the edition holds
\* the set of all values of its dimension in the catalog, the edition is filled
\* in, and the call goes on to the expansion.
C9_DefaultsToWholeDomain ==
    Expanded =>
        /\ ~FailedBeforeExpansion
        /\ \A n \in DOMAIN Parameters(cur.op) :
              LET f == Parameters(cur.op)[n]
              IN  Missing(cur.template, f) =>
                     /\ ~Missing(json, f)
                     /\ f # "edition" => Entry(json, f) = SetOf(f, DimensionValues(f))

RECURSIVE Size(_)
Size(j) == IF j = <<>> THEN 1 ELSE Cardinality(Head(j).v) * Size(Tail(j))

\* C10: _create_query_combinations returns n1*...*nk pairwise distinct instances,
\* each giving every field of the template, in the template's order, one of the
\* field's candidates; what the pruning returns is a sub-sequence of that list.
C10_ProductAndSubsequence ==
    (cur.op \in Endpoints /\ cur.comb) =>
        /\ Len(product) = Size(json)
        /\ \A a, b \in DOMAIN product : a # b => product[a] # product[b]
        /\ \A a \in DOMAIN product :
              /\ Len(product[a]) = Len(json)
              /\ \A i \in DOMAIN json :
                    product[a][i].k = json[i].k /\ product[a][i].v \in json[i].v
        /\ ~PruningRaised => IsSubSeq(jsons, product)

C10_Witness ==
    /\ Pruned
    /\ Cardinality({i \in DOMAIN json : json[i].t = "set" /\ Cardinality(json[i].v) > 1}) >= 3
    /\ Len(product) >= 8
    /\ Len(jsons) > 1
    /\ Len(jsons) < Len(product)

\* the defaulted template has no set-valued field
NoSetField(j) == j # <<>> /\ \A i \in DOMAIN j : j[i].t # "set"

\* the data requests among the remote calls of the running public call
DataCalls(log) == SelectSeq(log, LAMBDA c : c.type = "data")

\* the instance gives every field of the template, in its order, the template's value
SameFields(inst, j) ==
    /\ Len(inst) = Len(j)
    /\ \A i \in DOMAIN j : inst[i].k = j[i].k /\ j[i].v = {inst[i].v}

\* C11: when the defaulted template has no set-valued field, get_*_data passes on
\* one instance equal field for field to the defaulted template, sends exactly one
\* data request, with that instance, and does not take the combination branch
\* (the combination flag is not set by the call).
C11_SingleInstance ==
    [][ /\ (pc # "requesting" /\ pc' = "requesting" /\ NoSetField(json')) =>
              /\ ~cur'.comb
              /\ combination_query' = combination_query
              /\ Len(jsons') = 1
              /\ SameFields(jsons'[1], json')
              /\ DataCalls(calls') = <<>>
        /\ (pc = "requesting" /\ idx' = idx + 1 /\ NoSetField(json)) =>
              /\ pc' = "done"
              /\ combination_query' = combination_query
              /\ Len(DataCalls(calls')) = 1
              /\ DataCalls(calls')[1].body = jsons[1] ]_vars

C11_Witness ==
    /\ cur.op \in Endpoints
    /\ NoSetField(json)
    /\ pc = "done"
    /\ idx = 1
    /\ Len(DataCalls(calls)) = 1
    /\ DataCalls(calls)[1].body = jsons[1]
    /\ ret.kind = "table"
    /\ ~combination_query

\* every instance requested so far gave no frame (none was requested when no
\* instance survived the pruning)
NoRows == \A i \in DOMAIN frames : frames[i] = <<>>

\* C12: a combinatorial get_*_data in which no instance survives the pruning, or
\* in which no requested instance yields rows, ends in the fatal 'no valid
\* combinations' error and returns no table.
C12_NoValidCombinations ==
    (cur.op \in Endpoints /\ cur.comb /\ pc = "done" /\ ~PruningRaised /\ NoRows) =>
        /\ outcome = "SystemExit"
        /\ printed # <<>>
        /\ printed[Len(printed)].msg = "no_valid_combinations"
        /\ ret = NoReturn

C12_Witness ==
    /\ cur.op \in Endpoints
    /\ cur.comb
    /\ pc = "done"
    /\ Len(jsons) >= 2
    /\ idx = Len(jsons)
    /\ NoRows
    /\ \A i \in DOMAIN calls : calls[i].status = 200
    /\ outcome = "SystemExit"

\* the required fields that the instance leaves out or gives None or ""
Offending(inst, required_fields) ==
    {f \in SeqToSet(required_fields) : ~HasKey(inst, f) \/ Value(inst, f) \in {NONE, ""}}

\* C13: when some required field is absent or has a None or empty value,
\* __validate_json fails fatally and the field names it reports are exactly the
\* required fields that are absent or empty, all of them together.
C13_NamesEveryOffendingField ==
    (pc = "validated" /\ Offending(jsons[1], RequiredFields(cur.op)) # {}) =>
        /\ outcome = "SystemExit"
        /\ Len(printed) = 1
        /\ SeqToSet(printed[1].fields) = Offending(jsons[1], RequiredFields(cur.op))

\* the row has, for every non-empty field of the instance, a column of that name
\* with the instance's value
StampedBy(row, inst) ==
    \A n \in DOMAIN inst :
        inst[n].v \notin {NONE, ""} =>
            inst[n].k \in DOMAIN row /\ row[inst[n].k] = inst[n].v

\* C14: every row obtained for an instance carries each non-empty field of that
\* instance as a column with the instance's value, also where the payload has a
\* field of the same name; the merged table consists of these rows, each with the
\* values of its own instance.
C14_RowsStamped ==
    cur.op \in Endpoints =>
        /\ \A i \in DOMAIN frames : \A r \in DOMAIN frames[i] :
              StampedBy(frames[i][r], jsons[i])
        /\ ret.kind = "table" =>
              /\ \A n \in DOMAIN ret.rows :
                    \E i \in DOMAIN frames : \E r \in DOMAIN frames[i] :
                        ret.rows[n] = frames[i][r] /\ StampedBy(ret.rows[n], jsons[i])
              /\ \A i \in DOMAIN frames : \A r \in DOMAIN frames[i] :
                    \E n \in DOMAIN ret.rows : ret.rows[n] = frames[i][r]

C14_Witness ==
    /\ cur.op = "hourly"
    /\ cur.comb
    /\ ret.kind = "table"
    /\ Len(frames) = 2
    /\ frames[1] # <<>> /\ frames[2] # <<>>
    /\ Value(jsons[1], "zone") # Value(jsons[2], "zone")
    /\ \A n \in DOMAIN ret.rows : ret.rows[n].zone \in {"NO2", "SE2"}

\* the instance of the batch whose values the row is stamped with
Producer(row) == CHOOSE i \in DOMAIN jsons : StampedBy(row, jsons[i])

\* the instances requested so far that were answered 200 and gave no rows, in the
\* order of the batch
RejectedSoFar ==
    LET asked == [i \in 1..Len(frames) |-> i]
        data  == DataCalls(calls)
        rej   == SelectSeq(asked, LAMBDA i : /\ frames[i] = <<>>
                                              /\ i <= Len(data)
                                              /\ data[i].status = 200)
    IN  [n \in DOMAIN rej |-> jsons[rej[n]]]

IsSuffix(a, b) ==
    Len(a) <= Len(b) /\ SubSeq(b, Len(b) - Len(a) + 1, Len(b)) = a

\* C15: in the merged table the rows of an earlier instance of the pruned list
\* come before the rows of a later one and the rows of one instance keep their
\* payload order; the instances a batch rejects are the last entries of the
\* ledger, in the order of the pruned list.
C15_EnumerationOrder ==
    (cur.op \in Endpoints /\ cur.comb) =>
        /\ ret.kind = "table" =>
              \A p, q \in DOMAIN ret.rows :
                  p < q =>
                     \/ Producer(ret.rows[p]) < Producer(ret.rows[q])
                     \/ /\ Producer(ret.rows[p]) = Producer(ret.rows[q])
                        /\ ret.rows[p].value < ret.rows[q].value
        /\ IsSuffix(RejectedSoFar, rejected_combinations[FiledUnder(cur.op)])

C15_Witness ==
    /\ cur.op \in Endpoints
    /\ cur.comb
    /\ ret.kind = "table"
    /\ Len(frames) = 2
    /\ Len(frames[1]) = 2
    /\ Len(frames[2]) >= 1
    /\ Len(ret.rows) >= 3

\* C16: a master-data fetch or data request answered with a status other than 200
\* is the last request of the operation, in single and in combinatorial mode; the
\* operation ends in SystemExit, with the unexpected-error report of the status
\* code and of the body (the raw text when the body does not parse), and returns
\* no table.
C16_NonSuccessIsFatal ==
    \A i \in DOMAIN calls :
        (calls[i].type \in {"masterdata", "data"} /\ calls[i].status # 200) =>
            /\ i = Len(calls)
            /\ pc = "done"
            /\ outcome = "SystemExit"
            /\ ret = NoReturn
            /\ \E n \in DOMAIN printed :
                  /\ printed[n].msg = "unexpected_error"
                  /\ printed[n].fields =
                        <<ToString(calls[i].status),
                          IF calls[i].payload = "bad" THEN "text" ELSE "json">>

C16_Witness ==
    /\ cur.op \in Endpoints
    /\ cur.comb
    /\ Len(jsons) = 2
    /\ idx = 2
    /\ frames[1] # <<>>
    /\ calls[Len(calls)].type = "data"
    /\ calls[Len(calls)].status = 500
    /\ calls[Len(calls)].payload = "bad"
    /\ outcome = "SystemExit"

\* the login requests of a log
Logins(log) == {i \in DOMAIN log : log[i].type = "login"}

\* C17: a public call whose login is answered 401 sends that login as its only
\* login and as its last request, prints the unauthorized message last, ends in
\* SystemExit without a result, and leaves the stored token and issuedAt as they
\* were.
C17_UnauthorizedIsFatal ==
    [][ (ncalls' # ncalls /\ \E i \in Logins(calls') : calls'[i].status = 401) =>
            /\ Cardinality(Logins(calls')) = 1
            /\ calls'[Len(calls')].type = "login"
            /\ pc' = "done"
            /\ outcome' = "SystemExit"
            /\ ret' = NoReturn
            /\ printed' # <<>>
            /\ printed'[Len(printed')].msg = "unauthorized"
            /\ token_timestamp' = token_timestamp
            /\ authorization_header' = authorization_header ]_vars

C17_Witness ==
    /\ calls # <<>>
    /\ calls[Len(calls)].type = "login"
    /\ calls[Len(calls)].status = 401
    /\ token_timestamp = StartTime
    /\ authorization_header # 0
    /\ cur.op \in Endpoints
    /\ outcome = "SystemExit"

\* C18: a login answered with a status other than 200 and 401 ends the operation
\* in SystemExit with the unexpected-error report of that status printed.
C18_LoginErrorReported ==
    \A i \in Logins(calls) :
        calls[i].status \notin {200, 401} =>
            /\ outcome = "SystemExit"
            /\ \E n \in DOMAIN printed :
                  /\ printed[n].msg = "unexpected_error"
                  /\ printed[n].fields[1] = ToString(calls[i].status)

\* the step is a public call that runs the credential check
ChecksCredentials == ncalls' # ncalls /\ cur'.op # "get_rejected_combinations"

\* C19: a public call sends a login exactly when issuedAt + 600 < now + 20 at its
\* credential check, and then one login, as its first request; a login answered
\* 200 stores a new token and sets issuedAt to the time of the login; in every
\* other case, the further credential checks of the same call and the requests of
\* a running batch included, no login is sent and token and issuedAt stay as they
\* are.
C19_LoginIffExpired ==
    [][ /\ ChecksCredentials =>
              /\ (Logins(calls') # {}) <=> Expired
              /\ Logins(calls') \subseteq {1}
              /\ \A i \in Logins(calls') : calls'[i].at = now
              /\ IF Expired /\ calls'[1].status = 200
                 THEN /\ token_timestamp' = now
                      /\ authorization_header' # authorization_header
                 ELSE /\ token_timestamp' = token_timestamp
                      /\ authorization_header' = authorization_header
        /\ pc = "requesting" =>
              /\ Logins(calls') = Logins(calls)
              /\ token_timestamp' = token_timestamp
              /\ authorization_header' = authorization_header ]_vars

C19_Witness ==
    /\ ncalls = 2
    /\ token_timestamp = StartTime
    /\ now >= StartTime + LongDelay
    /\ Len(calls) >= 2
    /\ Logins(calls) = {}
    /\ outcome = "return"

\* the threads whose login request is in flight
InFlight == {t \in DOMAIN threads : threads[t].pc = "waiting"}

\* C20: of the threads that call the credential check on one client, at most one
\* has a login request in flight at any time.
C20_OneLoginInFlight == Cardinality(InFlight) <= 1

\* the editions the lookup chooses from: those of the rows of the given region, or
\* of every row when the region is left out
Candidates ==
    IF json[1].t = "none" THEN Column(master_data, "editions", "edition")
    ELSE LET rows == SelectSeq(master_data["editions"],
                               LAMBDA row : {row.region} = json[1].v)
         IN  [i \in DOMAIN rows |-> rows[i].edition]

LookedUp == pc = "looked_up" /\ outcome = "return"

\* the lookup returned one of the candidates, of the latest date among them
ReturnsLatest ==
    /\ ret.kind = "edition"
    /\ ret.rows[1] \in SeqToSet(Candidates)
    /\ \A i \in DOMAIN Candidates :
          transfrom_to_date(Candidates[i]) <= transfrom_to_date(ret.rows[1])
    /\ Candidates = <<"March 2022", "garbage", "September 2022">>
          => ret.rows[1] = "September 2022"

\* C21 as stated: the lookup returns a candidate whose date, with every string
\* that does not parse as 'Month Year' dated January 1970, is the latest; for
\* March 2022, garbage, September 2022 it returns September 2022; and it returns
\* a string that does not parse only when no candidate parses.
C21_NewestEditionUnparsableLast ==
    LookedUp =>
        /\ ReturnsLatest
        /\ ~strptime(ret.rows[1]).ok =>
              \A i \in DOMAIN Candidates : ~strptime(Candidates[i]).ok

\* C21, amended: as above, but a string that does not parse is returned only
\* when no candidate parses to a date later than January 1970.
C21_NewestEdition ==
    LookedUp =>
        /\ ReturnsLatest
        /\ ~strptime(ret.rows[1]).ok =>
              \A i \in DOMAIN Candidates :
                  strptime(Candidates[i]).ok =>
                      strptime(Candidates[i]).months <= strptime("January 1970").months

C21_Witness ==
    /\ LookedUp
    /\ json[1] = Scalar("region", "Nordics")
    /\ Column(master_data, "editions", "edition") = <<"garbage", "June 1969", "September 2022">>
    /\ Column(master_data, "editions", "region") = <<"Nordics", "Nordics", "Iberia">>
    /\ ret.rows = <<"garbage">>

\* the regions of the edition relation
CatalogRegions == SeqToSet(Column(master_data, "editions", "region"))

UnknownRegion ==
    /\ outcome = "SystemExit"
    /\ \E n \in DOMAIN printed : printed[n].msg = "unknown_region"

\* C22: a lookup with a region filter ends in the unknown-region exit exactly
\* when a region it was given is not in the catalog; when every region given, as
\* a str or as the members of a set, is in the catalog, it returns an edition.
C22_UnknownRegionIffAbsent ==
    (pc = "looked_up" /\ json[1].t # "none") =>
        /\ UnknownRegion <=> ~(json[1].v \subseteq CatalogRegions)
        /\ json[1].v \subseteq CatalogRegions =>
              (outcome = "return" /\ ret.kind = "edition")

\* the bodies of the data requests sent so far by the running call
Bodies == [i \in DOMAIN DataCalls(calls) |-> DataCalls(calls)[i].body]

\* C23: the data requests of a get_*_data call carry, one each and in order, the
\* instances that survived the pruning: at any moment the bodies sent are the
\* first instances of the surviving list, after a call that returned they are the
\* whole list, no surviving instance occurs twice, and an instance of the product
\* that the pruning dropped is never sent.
C23_OneRequestPerSurvivor ==
    (cur.op \in Endpoints /\ ~PruningRaised) =>
        /\ Len(Bodies) <= Len(jsons)
        /\ Bodies = SubSeq(jsons, 1, Len(Bodies))
        /\ \A a, b \in DOMAIN jsons : a # b => jsons[a] # jsons[b]
        /\ (pc = "done" /\ outcome = "return") => Len(Bodies) = Len(jsons)
        /\ \A p \in DOMAIN product :
              ~Survives(product[p]) => \A i \in DOMAIN Bodies : Bodies[i] # product[p]

C23_Witness ==
    /\ Pruned
    /\ pc = "done"
    /\ outcome = "return"
    /\ Len(jsons) = 2
    /\ Len(product) = 4
    /\ Bodies = jsons

\* the step belongs to a get_*_data call: its start or one of its requests
DataCallStep == cur'.op \in Endpoints /\ (ncalls' # ncalls \/ pc = "requesting")

\* C24: a step of a get_*_data call leaves a catalog that is already loaded as it
\* is, relation by relation and row by row, and the instances that survive the
\* pruning keep the relative order they have in the product.
C24_CatalogUntouched ==
    [][ DataCallStep =>
            /\ DOMAIN master_data # {} => master_data' = master_data
            /\ (cur'.comb /\ ~PruningRaised') => IsSubSeq(jsons', product') ]_vars

\* the running call printed the message
Printed(msg) == \E n \in DOMAIN printed : printed[n].msg = msg

\* C25: a combinatorial call reports 'no valid combinations' only when none of
\* its instances gave rows, and not when it was ended by an unexpected status or
\* by a missing required field of an instance.
C25_NoValidCombinationsDistinct ==
    (cur.op \in Endpoints /\ cur.comb /\ Printed("no_valid_combinations")) =>
        /\ NoRows
        /\ ~Printed("unexpected_error")
        /\ ~Printed("missing_fields")
        /\ ~Printed("missing_values")

\* the editions a lookup for the template chooses from, in the catalog md
EditionCandidates(ep, md, tmpl) ==
    IF ep \in {"technology", "hydrogen"} THEN Column(md, "editions", "editions")
    ELSE IF ep \in {"hourly", "monthly", "annual"} /\ HasKey(tmpl, "region")
            /\ Entry(tmpl, "region").t = "scalar"
    THEN LET rows == SelectSeq(md["editions"],
                               LAMBDA row : {row.region} = Entry(tmpl, "region").v)
         IN  [i \in DOMAIN rows |-> rows[i].edition]
    ELSE Column(md, "editions", "edition")

\* the start of a get_*_data call filled in the edition its template leaves out
EditionFilledIn ==
    /\ ncalls' # ncalls
    /\ cur'.op \in Endpoints
    /\ Missing(cur'.template, "edition")
    /\ ~Missing(json', "edition")

BatchRequest == pc = "requesting" /\ cur.comb /\ outcome' \in {"running", "return"}

\* C27: in a combinatorial batch every requested survivor either gives rows, and
\* the ledger stays as it is, or gives none and is appended, once, to the ledger of
\* its kind; the start of the batch, where instances are dropped, adds nothing to
\* the ledger; the table of a batch that returns holds exactly the rows of the
\* survivors that gave rows, and no row stamped by a dropped instance.
C27_TableOrLedger ==
    [][ /\ BatchRequest =>
              \E k \in {FiledUnder(cur.op)} :
                 \/ /\ frames'[idx'] # <<>>
                    /\ rejected_combinations' = rejected_combinations
                 \/ /\ frames'[idx'] = <<>>
                    /\ rejected_combinations' =
                          [rejected_combinations EXCEPT ![k] = Append(@, jsons[idx'])]
        /\ (BatchRequest /\ outcome' = "return") =>
              /\ Len(frames') = Len(jsons)
              /\ ret'.rows = ConcatAll(frames')
              /\ \A i \in DOMAIN jsons :
                    frames'[i] # <<>> <=>
                       \E n \in DOMAIN ret'.rows : StampedBy(ret'.rows[n], jsons[i])
              /\ \A p \in DOMAIN product :
                    ~Survives(product[p]) =>
                       \A n \in DOMAIN ret'.rows : ~StampedBy(ret'.rows[n], product[p])
        /\ (ncalls' # ncalls /\ cur'.op \in Endpoints) =>
              rejected_combinations' = rejected_combinations ]_vars

C27_Witness ==
    /\ Pruned
    /\ pc = "done"
    /\ outcome = "return"
    /\ Len(product) > Len(jsons)
    /\ Len(frames) = 2
    /\ frames[1] = <<>>
    /\ frames[2] # <<>>
    /\ rejected_combinations[FiledUnder(cur.op)] = <<jsons[1]>>

IsPrefix(a, b) == Len(a) <= Len(b) /\ SubSeq(b, 1, Len(a)) = a

\* C28: no step of any call, a call that ends in an error included, removes,
\* changes or reorders an entry of the ledger: every kind keeps its entries as the
\* first entries of its list; get_rejected_combinations returns the overview
\* whenever the Hourly or the Annual list has an entry, and an overview holds
\* every entry of every kind, those of one kind in the order they were filed.
C28_LedgerOnlyGrows ==
    [][ /\ \A k \in Kinds : IsPrefix(rejected_combinations[k], rejected_combinations'[k])
        /\ (ncalls' # ncalls /\ cur'.op = "get_rejected_combinations") =>
              /\ rejected_combinations' = rejected_combinations
              /\ (rejected_combinations["Hourly"] # <<>>
                     \/ rejected_combinations["Annual"] # <<>>) => ret'.kind = "overview"
              /\ ret'.kind = "overview" =>
                    \A k \in Kinds :
                       SelectSeq(ret'.rows, LAMBDA row : row.Query_type = k)
                          = [i \in DOMAIN rejected_combinations[k] |->
                                [Query_type |-> k,
                                 combination |-> rejected_combinations[k][i]]] ]_vars

C28_Witness ==
    /\ cur.op = "get_rejected_combinations"
    /\ ncalls = 3
    /\ crashed
    /\ Len(rejected_combinations["Hourly"]) = 2
    /\ rejected_combinations["Hourly"][1] # rejected_combinations["Hourly"][2]
    /\ ret.kind = "overview"
    /\ Len(ret.rows) = 2

\* C29: a get_GO_data or get_PPA_data call in combinatorial mode gets through the
\* pruning: no KeyError for a field the instances do not have, and the instances
\* passed on are a sub-sequence of the product.
C29_CertificatePruningCompletes ==
    (cur.op \in {"GO", "PPA"} /\ cur.comb) =>
        /\ ~PruningRaised
        /\ IsSubSeq(jsons, product)

====
